---- MODULE Spec2Model ----
(***************************************************************************)
(* Model of src/tips.js: the tip-selection system.  Each frame the system  *)
(* walks the platform's ordered tip lists for the scopes "top" and         *)
(* "bottom", skips finished tips, runs the validators of the others and    *)
(* takes the first VALID one; FINISH results are persisted in localStorage.*)
(***************************************************************************)
EXTENDS Integers, Sequences, FiniteSets, TLC

(***************************************************************************)
(* Bounds of the model.                                                    *)
(***************************************************************************)
\* number of ticks that evaluate the scopes, explored in one behaviour
MaxTicks == 2
\* number of handleTipClose / markTipFinished / resetTips calls explored in one behaviour
MaxCalls == 1

(***************************************************************************)
(* Constants of the program.                                               *)
(***************************************************************************)
INVALID == 0
VALID == 1
FINISH == 2

Scopes == {"top", "bottom"}

TIPS ==
  [ desktop |->
      [ top |-> << "mirror_mode", "pen_mode", "video_share_mode", "mute_mode" >>,
        bottom |-> << "look", "locomotion", "turning", "spawn_menu", "object_grab",
                      "object_zoom", "object_scale", "freeze_gesture", "menu_hover",
                      "object_recenter_button", "object_rotate_button",
                      "object_scale_button", "object_pin", "invite", "pen_color",
                      "pen_size" >> ],
    mobile |->
      [ top |-> << "pen_mode", "video_share_mode", "freeze_mode", "mute_mode" >>,
        bottom |-> << "look", "locomotion", "spawn_menu", "object_grab",
                      "freeze_gesture", "object_recenter_button",
                      "object_rotate_button", "object_scale_button", "object_pin",
                      "invite" >> ],
    standalone |-> [ top |-> << >>, bottom |-> << >> ] ]

\* These tips, if closed, will only clear themselves, not all tips.
LOCAL_CLOSE_TIPS == {"invite", "object_pin"}

Range(seq) == {seq[i] : i \in 1..Len(seq)}

(***************************************************************************)
(* The frame context read by the validators.  A context is a record        *)
(*   on    : the set of signals that are truthy this frame,                *)
(*   count : the value of mediaCounter.count().                            *)
(* Signals: membership of userinput.activeSets, truthiness of              *)
(* userinput.get(path), scene.is(flag), window.APP.store and its activity  *)
(* flags.  characterAcceleration is the vector returned for the path:      *)
(* "characterAcceleration" says it is present, "accel0"/"accel1" that its  *)
(* component is non-zero.                                                  *)
(***************************************************************************)
ActiveSetNames ==
  {"cursorHoldingPen", "cursorHoldingInteractable", "cursorHoldingCamera",
   "cursorHoveringOnInteractable"}
PathNames ==
  {"touchCameraDelta", "cameraDelta", "characterAcceleration", "accel0", "accel1",
   "snapRotateLeft", "snapRotateRight", "modDelta", "scaleGrabbedGrabbable",
   "penNextColor", "penPrevColor", "scalePenTip"}
SceneFlags == {"frozen", "copresent", "sharing_video", "mirroring", "muted"}
StoreNames == {"store", "hasRotated", "hasScaled", "hasRecentered", "hasPinned"}
Signals == ActiveSetNames \cup PathNames \cup SceneFlags \cup StoreNames

\* Frames: what can be truthy in one frame.  Nothing; one signal; or the signals
\* of one user action that a tip teaches (moving, hovering an object while
\* frozen, zooming or scaling a held object, changing the pen, having used one
\* of the object buttons, frozen or not).
ActionFrames ==
  { {"characterAcceleration", "accel0"}, {"characterAcceleration", "accel1"},
    {"frozen", "cursorHoveringOnInteractable"},
    {"cursorHoldingInteractable", "modDelta"},
    {"cursorHoldingInteractable", "scaleGrabbedGrabbable"},
    {"cursorHoldingPen", "penNextColor"}, {"cursorHoldingPen", "penPrevColor"},
    {"cursorHoldingPen", "scalePenTip"} }
  \cup {{"store", f} : f \in {"hasRotated", "hasScaled", "hasRecentered", "hasPinned"}}
  \cup {{"frozen", "store", f} : f \in {"hasRotated", "hasScaled", "hasRecentered", "hasPinned"}}
Frames == {{}} \cup {{x} : x \in Signals} \cup ActionFrames
\* mediaCounter.count(): no object, one object
Counts == {0, 1}

Contexts == [on : Frames, count : Counts]

(***************************************************************************)
(* The validators.  Each returns INVALID, VALID or FINISH.                 *)
(***************************************************************************)
Has(c, s) == s \in c.on
\* userinput.get(paths.actions.characterAcceleration): accel && (accel[0] !== 0 || accel[1] !== 0)
Moved(c) == Has(c, "characterAcceleration") /\ (Has(c, "accel0") \/ Has(c, "accel1"))
\* store && store.state.activity[flag]
Activity(c, flag) == Has(c, "store") /\ Has(c, flag)

look(c, mobile) ==
  IF Has(c, "cursorHoldingPen") THEN INVALID
  ELSE IF Has(c, IF mobile THEN "touchCameraDelta" ELSE "cameraDelta") THEN FINISH
  ELSE VALID

locomotion(c) ==
  IF Has(c, "cursorHoldingPen") THEN INVALID
  ELSE IF Moved(c) THEN FINISH
  ELSE VALID

turning(c) ==
  IF Has(c, "cursorHoldingPen") THEN INVALID
  ELSE IF Has(c, "snapRotateLeft") \/ Has(c, "snapRotateRight") THEN FINISH
  ELSE VALID

spawn_menu(c) ==
  IF Has(c, "cursorHoldingPen") THEN INVALID
  ELSE IF c.count = 0 THEN VALID
  ELSE FINISH

\* variant: the test of the counter on line 143 is missing
freeze_gesture_NoCountGate(c) ==
  IF Has(c, "cursorHoldingInteractable") THEN INVALID
  ELSE IF Has(c, "cursorHoldingPen") THEN INVALID
  ELSE IF Has(c, "frozen") /\ Has(c, "cursorHoveringOnInteractable") THEN FINISH
  ELSE IF Has(c, "frozen") THEN INVALID
  ELSE VALID

freeze_gesture(c) ==
  IF c.count = 0 THEN INVALID
  ELSE IF Has(c, "cursorHoldingInteractable") THEN INVALID
  ELSE IF Has(c, "cursorHoldingPen") THEN INVALID
  ELSE IF Has(c, "frozen") /\ Has(c, "cursorHoveringOnInteractable") THEN FINISH
  ELSE IF Has(c, "frozen") THEN INVALID
  ELSE VALID

menu_hover(c) ==
  IF c.count = 0 THEN INVALID
  ELSE IF ~Has(c, "frozen") THEN INVALID
  ELSE IF Has(c, "cursorHoldingPen") THEN INVALID
  ELSE IF Has(c, "frozen") /\ Has(c, "cursorHoveringOnInteractable") THEN FINISH
  ELSE VALID

invite(c) ==
  IF Has(c, "cursorHoldingPen") THEN INVALID
  ELSE IF Has(c, "cursorHoldingCamera") THEN INVALID
  ELSE IF Has(c, "cursorHoldingInteractable") THEN INVALID
  ELSE IF Has(c, "copresent") THEN FINISH
  ELSE VALID

object_grab(c) ==
  IF Has(c, "frozen") THEN INVALID
  ELSE IF c.count = 0 THEN INVALID
  ELSE IF Has(c, "cursorHoldingPen") THEN INVALID
  ELSE IF Has(c, "cursorHoldingCamera") THEN INVALID
  ELSE IF Has(c, "cursorHoldingInteractable") THEN FINISH
  ELSE VALID

\* variant: the activity flag is tested before the scene and the counter
ActivityButton_FlagFirst(c, flag) ==
  IF Activity(c, flag) THEN FINISH
  ELSE IF ~Has(c, "frozen") THEN INVALID
  ELSE IF c.count = 0 THEN INVALID
  ELSE VALID

\* the four button tips share one shape and differ in the activity flag
ActivityButton(c, flag) ==
  IF ~Has(c, "frozen") THEN INVALID
  ELSE IF c.count = 0 THEN INVALID
  ELSE IF Activity(c, flag) THEN FINISH
  ELSE VALID

object_rotate_button(c) == ActivityButton(c, "hasRotated")
object_scale_button(c) == ActivityButton(c, "hasScaled")
object_recenter_button(c) == ActivityButton(c, "hasRecentered")
object_pin(c) == ActivityButton(c, "hasPinned")

\* object_zoom and object_scale share one shape and differ in the path read
HeldObjectAction(c, path) ==
  IF Has(c, "frozen") THEN INVALID
  ELSE IF Has(c, "cursorHoldingPen") THEN INVALID
  ELSE IF Has(c, "cursorHoldingCamera") THEN INVALID
  ELSE IF ~Has(c, "cursorHoldingInteractable") THEN INVALID
  ELSE IF Has(c, path) THEN FINISH
  ELSE VALID

object_zoom(c) == HeldObjectAction(c, "modDelta")
object_scale(c) == HeldObjectAction(c, "scaleGrabbedGrabbable")

pen_color(c) ==
  IF ~Has(c, "cursorHoldingPen") THEN INVALID
  ELSE IF Has(c, "penNextColor") \/ Has(c, "penPrevColor") THEN FINISH
  ELSE VALID

pen_size(c) ==
  IF ~Has(c, "cursorHoldingPen") THEN INVALID
  ELSE IF Has(c, "scalePenTip") THEN FINISH
  ELSE VALID

pen_mode(c) == IF ~Has(c, "cursorHoldingPen") THEN INVALID ELSE VALID
freeze_mode(c) == IF Has(c, "frozen") THEN VALID ELSE INVALID
video_share_mode(c) == IF Has(c, "sharing_video") THEN VALID ELSE INVALID
mirror_mode(c) == IF Has(c, "mirroring") THEN VALID ELSE INVALID
mute_mode(c) == IF Has(c, "muted") THEN VALID ELSE INVALID

VALIDATORS(tip, c, mobile) ==
  CASE tip = "look" -> look(c, mobile)
    [] tip = "locomotion" -> locomotion(c)
    [] tip = "turning" -> turning(c)
    [] tip = "spawn_menu" -> spawn_menu(c)
    [] tip = "freeze_gesture" -> freeze_gesture(c)
    [] tip = "menu_hover" -> menu_hover(c)
    [] tip = "invite" -> invite(c)
    [] tip = "object_grab" -> object_grab(c)
    [] tip = "object_rotate_button" -> object_rotate_button(c)
    [] tip = "object_scale_button" -> object_scale_button(c)
    [] tip = "object_recenter_button" -> object_recenter_button(c)
    [] tip = "object_pin" -> object_pin(c)
    [] tip = "object_zoom" -> object_zoom(c)
    [] tip = "object_scale" -> object_scale(c)
    [] tip = "pen_color" -> pen_color(c)
    [] tip = "pen_size" -> pen_size(c)
    [] tip = "pen_mode" -> pen_mode(c)
    [] tip = "freeze_mode" -> freeze_mode(c)
    [] tip = "video_share_mode" -> video_share_mode(c)
    [] tip = "mirror_mode" -> mirror_mode(c)
    [] tip = "mute_mode" -> mute_mode(c)

(***************************************************************************)
(* JavaScript values kept by the module.                                   *)
(*   JSNull        null (localStorage.getItem of a missing key, the empty  *)
(*                 cache)                                                  *)
(*   JSUndefined   a property that was never assigned                      *)
(*   Obj(S)        the object { t: { finished: true } } for the tips t of S*)
(*   Str(S)        the JSON text of Obj(S), as stored in localStorage      *)
(***************************************************************************)
JSNull == << "null" >>
JSUndefined == << "undefined" >>
Obj(S) == << "object", S >>
Str(S) == << "string", S >>
JSONstringify(obj) == Str(obj[2])
\* JSON.parse(null) is null
JSONparse(item) == IF item = JSNull THEN JSNull ELSE Obj(item[2])

\* `${tipPlatform()}.${tip}` and fullTip.split(".")[1]
Qualify(platform, tip) == << platform, tip >>
BareTip(fullTip) == fullTip[2]

VARIABLES
  isMobile,            \* AFRAME.utils.device.isMobile()
  isMobileVR,          \* AFRAME.utils.device.isMobileVR()
  localStorage,        \* the item stored under LOCAL_STORAGE_KEY
  localStorageCache,   \* module variable
  finishedScopes,      \* module variable: the scopes flagged as finished
  activeTips,          \* this.activeTips, per scope
  userinput,           \* this._userinput is resolved
  mediaCounter,        \* this._mediaCounter is resolved
  phase,               \* "loaded": module evaluated; "running": system init() has run
  last,                \* what the last call did (observation)
  returnedFinish,      \* tips whose validator returned FINISH since the last resetTips
  ticks,               \* number of tick calls so far
  calls                \* number of handleTipClose/markTipFinished/resetTips calls so far

vars == << isMobile, isMobileVR, localStorage, localStorageCache, finishedScopes,
           activeTips, userinput, mediaCounter, phase, last, returnedFinish, ticks,
           calls >>

tipPlatform == IF isMobileVR THEN "standalone" ELSE IF isMobile THEN "mobile" ELSE "desktop"
platformTips == TIPS[tipPlatform]
AllTips(platform) == Range(TIPS[platform].top) \cup Range(TIPS[platform].bottom)

(***************************************************************************)
(* isTipFinished and markTipFinished, on the pair m = [item, cache] of the *)
(* stored item and the cache.  A property access on null throws.           *)
(***************************************************************************)
\* variant: answers without looking at the record
isTipFinished_IgnoresRecord(m, tip) ==
  LET cache == IF m.cache = JSNull THEN JSONparse(m.item) ELSE m.cache
  IN [m |-> [m EXCEPT !.cache = cache], threw |-> cache = JSNull, value |-> FALSE]

isTipFinished(m, tip) ==
  LET cache == IF m.cache = JSNull THEN JSONparse(m.item) ELSE m.cache
      m1 == [m EXCEPT !.cache = cache]
  IN IF cache = JSNull
       THEN [m |-> m1, threw |-> TRUE, value |-> FALSE]
       ELSE [m |-> m1, threw |-> FALSE, value |-> tip \in cache[2]]

\* variant: starts from an empty object instead of the stored record
markTipFinished_Overwrites(m, tip) ==
  LET storeData == JSONparse(m.item)
  IN IF storeData = JSNull
       THEN [m |-> m, threw |-> TRUE]
       ELSE [m |-> [item |-> JSONstringify(Obj({tip})), cache |-> JSNull],
             threw |-> FALSE]

\* variant: the cache is not dropped after the write
markTipFinished_KeepsCache(m, tip) ==
  LET storeData == JSONparse(m.item)
  IN IF storeData = JSNull
       THEN [m |-> m, threw |-> TRUE]
       ELSE [m |-> [item |-> JSONstringify(Obj(storeData[2] \cup {tip})),
                    cache |-> m.cache],
             threw |-> FALSE]

\* variant: drops the cache but does not write the record back
markTipFinished_NotStored(m, tip) ==
  IF JSONparse(m.item) = JSNull THEN [m |-> m, threw |-> TRUE]
  ELSE [m |-> [m EXCEPT !.cache = JSNull], threw |-> FALSE]

markTipFinished(m, tip) ==
  LET storeData == JSONparse(m.item)
  IN IF storeData = JSNull
       THEN [m |-> m, threw |-> TRUE]
       ELSE [m |-> [item |-> JSONstringify(Obj(storeData[2] \cup {tip})),
                    cache |-> JSNull],
             threw |-> FALSE]

\* the loop of handleTipClose: markTipFinished on every tip of the list
RECURSIVE MarkEach(_, _, _)
MarkEach(m, tips, i) ==
  IF i > Len(tips) THEN [m |-> m, threw |-> FALSE]
  ELSE LET r == markTipFinished(m, tips[i])
       IN IF r.threw THEN r ELSE MarkEach(r.m, tips, i + 1)

\* variant: every closed tip clears the whole scope
CloseList_AlwaysScope(tip, scope, tips) == tips[scope]

\* variant: every closed tip clears only itself
CloseList_AlwaysLocal(tip, scope, tips) == << tip >>

\* the list of tips handleTipClose clears
CloseList(tip, scope, tips) ==
  IF tip \in LOCAL_CLOSE_TIPS THEN << tip >> ELSE tips[scope]

(***************************************************************************)
(* _performStep: the scan of one scope.  The accumulator a holds           *)
(*   m            the stored item and the cache                            *)
(*   chosenTip    JSNull or the qualified tip                              *)
(*   finishCount  tips found already finished                              *)
(*   returned     pairs << tip, result >> of the validator calls made      *)
(*   finish       tips whose validator returned FINISH                     *)
(*   threw        an exception ended the scan                              *)
(***************************************************************************)
\* variant: the FINISH case falls through into the VALID case
ScanTip_FinishSelects(a, tip, c, mobile, platform) ==
  LET f == isTipFinished(a.m, tip)
  IN IF f.threw THEN [a EXCEPT !.m = f.m, !.threw = TRUE]
     ELSE IF f.value THEN [a EXCEPT !.m = f.m, !.finishCount = @ + 1]
     ELSE LET r == VALIDATORS(tip, c, mobile)
              b == [a EXCEPT !.m = f.m, !.returned = @ \cup {<< tip, r >>}]
          IN IF r = FINISH
               THEN LET k == markTipFinished(b.m, tip)
                    IN [b EXCEPT !.m = k.m, !.threw = k.threw, !.finish = @ \cup {tip},
                                 !.chosenTip = Qualify(platform, tip)]
             ELSE IF r = VALID
               THEN [b EXCEPT !.chosenTip = Qualify(platform, tip)]
             ELSE b

\* the body of the loop for the tip at position i
ScanTip(a, tip, c, mobile, platform) ==
  LET f == isTipFinished(a.m, tip)
  IN IF f.threw THEN [a EXCEPT !.m = f.m, !.threw = TRUE]
     ELSE IF f.value THEN [a EXCEPT !.m = f.m, !.finishCount = @ + 1]
     ELSE LET r == VALIDATORS(tip, c, mobile)
              b == [a EXCEPT !.m = f.m, !.returned = @ \cup {<< tip, r >>}]
          IN IF r = FINISH
               THEN LET k == markTipFinished(b.m, tip)
                    IN [b EXCEPT !.m = k.m, !.threw = k.threw, !.finish = @ \cup {tip}]
             ELSE IF r = VALID
               THEN [b EXCEPT !.chosenTip = Qualify(platform, tip)]
             ELSE b

\* variant: the break of line 301 is missing
RECURSIVE Scan_NoBreak(_, _, _, _, _, _)
Scan_NoBreak(a, tips, i, c, mobile, platform) ==
  IF i > Len(tips) \/ a.threw THEN a
  ELSE Scan_NoBreak(ScanTip(a, tips[i], c, mobile, platform), tips, i + 1, c, mobile,
                    platform)

\* the loop of _performStep, left at the first chosen tip
RECURSIVE Scan(_, _, _, _, _, _)
Scan(a, tips, i, c, mobile, platform) ==
  IF i > Len(tips) \/ a.chosenTip # JSNull \/ a.threw THEN a
  ELSE Scan(ScanTip(a, tips[i], c, mobile, platform), tips, i + 1, c, mobile, platform)

\* variant: a scope flagged as finished gets its selection cleared on every tick
\* and the flag is set as soon as the scan ends with every tip finished
performStep_FlagsAtOnce(e, tips, scope, c, mobile, platform) ==
  IF e.threw \/ scope \in e.finishedScopes THEN e
  ELSE LET a == Scan([m |-> e.m, chosenTip |-> JSNull, finishCount |-> 0,
                      returned |-> {}, finish |-> {}, threw |-> FALSE],
                     tips, 1, c, mobile, platform)
       IN IF a.threw
            THEN [e EXCEPT !.m = a.m, !.returned = @ \cup a.returned,
                           !.finish = @ \cup a.finish, !.threw = TRUE]
            ELSE [m |-> a.m,
                  finishedScopes |->
                    IF a.finishCount + Cardinality(a.finish) = Len(tips)
                    THEN e.finishedScopes \cup {scope}
                    ELSE e.finishedScopes,
                  activeTips |-> [e.activeTips EXCEPT ![scope] = a.chosenTip],
                  returned |-> e.returned \cup a.returned,
                  finish |-> e.finish \cup a.finish,
                  threw |-> FALSE]

\* e = [m, finishedScopes, activeTips, returned, finish, threw]
performStep(e, tips, scope, c, mobile, platform) ==
  IF e.threw \/ scope \in e.finishedScopes THEN e
  ELSE LET a == Scan([m |-> e.m, chosenTip |-> JSNull, finishCount |-> 0,
                      returned |-> {}, finish |-> {}, threw |-> FALSE],
                     tips, 1, c, mobile, platform)
       IN IF a.threw
            THEN [e EXCEPT !.m = a.m, !.returned = @ \cup a.returned,
                           !.finish = @ \cup a.finish, !.threw = TRUE]
            ELSE [m |-> a.m,
                  finishedScopes |->
                    IF a.finishCount = Len(tips) THEN e.finishedScopes \cup {scope}
                    ELSE e.finishedScopes,
                  activeTips |-> [e.activeTips EXCEPT ![scope] = a.chosenTip],
                  returned |-> e.returned \cup a.returned,
                  finish |-> e.finish \cup a.finish,
                  threw |-> FALSE]

\* the part of tick after both handles are resolved
performTick(e, tips, c, mobile, platform) ==
  LET top == performStep(e, tips.top, "top", c, mobile, platform)
      bottom == performStep(top, tips.bottom, "bottom", c, mobile, platform)
  IN bottom

\* variant: compares with != instead of !==, so that undefined equals null
TipsChanged_LooseEquality(prev, now) ==
  LET loose(x) == IF x = JSUndefined THEN JSNull ELSE x
  IN loose(prev.top) # loose(now.top) \/ loose(prev.bottom) # loose(now.bottom)

\* variant: compares the top selection only
TipsChanged_TopOnly(prev, now) == prev.top # now.top

\* prevTop !== this.activeTips.top || prevBottom !== this.activeTips.bottom
TipsChanged(prev, now) == prev.top # now.top \/ prev.bottom # now.bottom

(***************************************************************************)
(* Observation of a call, kept in last.                                    *)
(*   op        the function called                                         *)
(*   complete  a tick that evaluated the scopes                            *)
(*   emitted   number of tips_changed events emitted by the call           *)
(*   returned  pairs << tip, result >> of the validator calls it made      *)
(*   finish    tips whose validator returned FINISH in the call            *)
(*   threw     the call ended with an exception                            *)
(*   wiped     resetTips: the finished tips and flagged scopes it cleared  *)
(*   frame     a single validator call: the context it was given           *)
(***************************************************************************)
Observed(op) ==
  [op |-> op, complete |-> FALSE, emitted |-> 0, returned |-> {},
   finish |-> {}, threw |-> FALSE, wiped |-> << >>, frame |-> << >>]

\* the tips the stored record marks finished (none when the key is missing)
Finished == IF localStorage = JSNull THEN {} ELSE localStorage[2]

(***************************************************************************)
(* Initial states.  The platform is fixed by the device.  localStorage     *)
(* holds what earlier sessions left: nothing, or a record of finished tips.*)
(***************************************************************************)
Platforms == { << FALSE, FALSE >>, << TRUE, FALSE >>, << FALSE, TRUE >> }

PlatformOf(mobile, mobileVR) ==
  IF mobileVR THEN "standalone" ELSE IF mobile THEN "mobile" ELSE "desktop"

\* the records an earlier session can have left: nothing finished, every tip of
\* the platform finished, or every tip but one
StoredRecords(platform) ==
  LET all == AllTips(platform)
  IN {{}, all} \cup {all \ {t} : t \in all}

\* init() of the system: creates the record when the key is missing
InitItem(item) == IF item = JSNull THEN JSONstringify(Obj({})) ELSE item

\* the state after init()
Init ==
  /\ \E d \in Platforms :
       /\ isMobile = d[1] /\ isMobileVR = d[2]
       /\ \E S \in StoredRecords(PlatformOf(d[1], d[2])) :
            \E item \in {JSNull, Str(S)} : localStorage = InitItem(item)
  /\ localStorageCache = JSNull
  /\ finishedScopes = {}
  /\ activeTips = [s \in Scopes |-> JSUndefined]
  /\ userinput = FALSE
  /\ mediaCounter = FALSE
  /\ returnedFinish = {}
  /\ ticks = 0
  /\ calls = 0
  /\ phase = "running"
  /\ last = Observed("init")

\* what _performStep reads and writes, as the record performTick works on
Engine ==
  [m |-> [item |-> localStorage, cache |-> localStorageCache],
   finishedScopes |-> finishedScopes, activeTips |-> activeTips,
   returned |-> {}, finish |-> {}, threw |-> FALSE]

\* one evaluation of both scopes on this device, from the engine state e
TickFrom(e, c) == performTick(e, platformTips, c, isMobile, tipPlatform)

\* variant: the early return of line 263 is missing
TickCall_IgnoresCounter(uiAvail, mcAvail, c) ==
  /\ phase = "running"
  /\ userinput' = (userinput \/ uiAvail)
  /\ IF ~userinput'
       THEN /\ last' = Observed("tick")
            /\ UNCHANGED << localStorage, localStorageCache, finishedScopes, activeTips,
                            mediaCounter, returnedFinish, ticks >>
       ELSE /\ mediaCounter' = (mediaCounter \/ mcAvail)
            /\ IF FALSE
                 THEN /\ last' = Observed("tick")
                      /\ UNCHANGED << localStorage, localStorageCache, finishedScopes,
                                      activeTips, returnedFinish, ticks >>
                 ELSE /\ ticks < MaxTicks
                      /\ ticks' = ticks + 1
                      /\ \E e \in {TickFrom(Engine, c)} :
                           /\ localStorage' = e.m.item
                           /\ localStorageCache' = e.m.cache
                           /\ finishedScopes' = e.finishedScopes
                           /\ activeTips' = e.activeTips
                           /\ returnedFinish' = returnedFinish \cup e.finish
                           /\ last' = [Observed("tick") EXCEPT
                                         !.complete = ~e.threw,
                                         !.emitted =
                                           IF ~e.threw /\ TipsChanged(activeTips, e.activeTips)
                                           THEN 1 ELSE 0,
                                         !.returned = e.returned,
                                         !.finish = e.finish,
                                         !.threw = e.threw]
  /\ UNCHANGED << isMobile, isMobileVR, phase, calls >>

(***************************************************************************)
(* tick.  uiAvail: this.el.systems.userinput exists; mcAvail: the          *)
(* #media-counter element has its networked-counter component; c: the      *)
(* frame context.  ticks counts the ticks that evaluate the scopes.        *)
(***************************************************************************)
TickCall(uiAvail, mcAvail, c) ==
  /\ phase = "running"
  /\ userinput' = (userinput \/ uiAvail)
  /\ IF ~userinput'
       THEN /\ last' = Observed("tick")
            /\ UNCHANGED << localStorage, localStorageCache, finishedScopes, activeTips,
                            mediaCounter, returnedFinish, ticks >>
       ELSE /\ mediaCounter' = (mediaCounter \/ mcAvail)
            /\ IF ~mediaCounter'
                 THEN /\ last' = Observed("tick")
                      /\ UNCHANGED << localStorage, localStorageCache, finishedScopes,
                                      activeTips, returnedFinish, ticks >>
                 ELSE /\ ticks < MaxTicks
                      /\ ticks' = ticks + 1
                      /\ \E e \in {TickFrom(Engine, c)} :
                           /\ localStorage' = e.m.item
                           /\ localStorageCache' = e.m.cache
                           /\ finishedScopes' = e.finishedScopes
                           /\ activeTips' = e.activeTips
                           /\ returnedFinish' = returnedFinish \cup e.finish
                           /\ last' = [Observed("tick") EXCEPT
                                         !.complete = ~e.threw,
                                         !.emitted =
                                           IF ~e.threw /\ TipsChanged(activeTips, e.activeTips)
                                           THEN 1 ELSE 0,
                                         !.returned = e.returned,
                                         !.finish = e.finish,
                                         !.threw = e.threw]
  /\ UNCHANGED << isMobile, isMobileVR, phase, calls >>

\* the environment values are drawn only where tick reads them
Tick ==
  \E uiAvail \in (IF userinput THEN {TRUE} ELSE BOOLEAN) :
    \E mcAvail \in (IF mediaCounter \/ ~(userinput \/ uiAvail) THEN {TRUE} ELSE BOOLEAN) :
      \E c \in (IF (userinput \/ uiAvail) /\ (mediaCounter \/ mcAvail)
                THEN Contexts ELSE {[on |-> {}, count |-> 0]}) :
        TickCall(uiAvail, mcAvail, c)

(***************************************************************************)
(* The exported functions.                                                 *)
(***************************************************************************)
MarkTipFinishedCall(tip) ==
  /\ calls < MaxCalls
  /\ calls' = calls + 1
  /\ \E r \in {markTipFinished([item |-> localStorage, cache |-> localStorageCache], tip)} :
       /\ localStorage' = r.m.item
       /\ localStorageCache' = r.m.cache
       /\ last' = [Observed("markTipFinished") EXCEPT !.threw = r.threw]
  /\ UNCHANGED << isMobile, isMobileVR, finishedScopes, activeTips, userinput,
                  mediaCounter, phase, returnedFinish, ticks >>

MarkTipFinished == \E tip \in AllTips(tipPlatform) : MarkTipFinishedCall(tip)

\* variant: closing a tip also clears the selection of the scope
HandleTipCloseCall_ClearsSelection(fullTip, scope) ==
  /\ calls < MaxCalls
  /\ calls' = calls + 1
  /\ \E r \in {MarkEach([item |-> localStorage, cache |-> localStorageCache],
                        CloseList(BareTip(fullTip), scope, platformTips), 1)} :
       /\ localStorage' = r.m.item
       /\ localStorageCache' = r.m.cache
       /\ last' = [Observed("handleTipClose") EXCEPT !.threw = r.threw]
  /\ activeTips' = [activeTips EXCEPT ![scope] = JSNull]
  /\ UNCHANGED << isMobile, isMobileVR, finishedScopes, userinput, mediaCounter, phase,
                  returnedFinish, ticks >>

HandleTipCloseCall(fullTip, scope) ==
  /\ calls < MaxCalls
  /\ calls' = calls + 1
  /\ \E r \in {MarkEach([item |-> localStorage, cache |-> localStorageCache],
                        CloseList(BareTip(fullTip), scope, platformTips), 1)} :
       /\ localStorage' = r.m.item
       /\ localStorageCache' = r.m.cache
       /\ last' = [Observed("handleTipClose") EXCEPT !.threw = r.threw]
  /\ UNCHANGED << isMobile, isMobileVR, finishedScopes, activeTips, userinput,
                  mediaCounter, phase, returnedFinish, ticks >>

HandleTipClose ==
  \E t \in AllTips(tipPlatform), scope \in Scopes :
    HandleTipCloseCall(Qualify(tipPlatform, t), scope)

(***************************************************************************)
(* resetTips.  storeAvail: window.APP.store is there (the validators test  *)
(* it with "store &&", so it can be missing).  Without it the call to      *)
(* resetTipActivityFlags on line 112 throws: the record is already wiped   *)
(* and the cache dropped, the flags of the scopes are not yet cleared.     *)
(* With it, the two calls into the store reset the activity flags, which   *)
(* every tick draws anew with its frame context, and nothing else this     *)
(* module reads.                                                           *)
(***************************************************************************)
ResetTipsCall(storeAvail) ==
  /\ calls < MaxCalls
  /\ calls' = calls + 1
  /\ localStorage' = JSONstringify(Obj({}))
  /\ localStorageCache' = JSNull
  /\ finishedScopes' = IF storeAvail THEN {} ELSE finishedScopes
  /\ returnedFinish' = {}
  /\ last' = [Observed("resetTips") EXCEPT
                !.threw = ~storeAvail,
                !.wiped = << Finished, finishedScopes \ finishedScopes' >>]
  /\ UNCHANGED << isMobile, isMobileVR, activeTips, userinput, mediaCounter, phase,
                  ticks >>

ResetTips == \E storeAvail \in BOOLEAN : ResetTipsCall(storeAvail)

Next == Tick \/ MarkTipFinished \/ HandleTipClose \/ ResetTips

Spec == Init /\ [][Next]_vars

(***************************************************************************)
(* The module before the system is initialised: the exported functions can *)
(* be called as soon as the module is evaluated, init() runs when the      *)
(* scene creates its systems.                                              *)
(***************************************************************************)
InitLoaded ==
  /\ \E d \in Platforms :
       /\ isMobile = d[1] /\ isMobileVR = d[2]
       /\ \E S \in StoredRecords(PlatformOf(d[1], d[2])) :
            localStorage \in {JSNull, Str(S)}
  /\ localStorageCache = JSNull
  /\ finishedScopes = {}
  /\ activeTips = [s \in Scopes |-> JSUndefined]
  /\ userinput = FALSE
  /\ mediaCounter = FALSE
  /\ returnedFinish = {}
  /\ ticks = 0
  /\ calls = 0
  /\ phase = "loaded"
  /\ last = Observed("load")

SystemInit ==
  /\ phase = "loaded"
  /\ phase' = "running"
  /\ activeTips' = [s \in Scopes |-> JSUndefined]
  /\ localStorage' = InitItem(localStorage)
  /\ last' = Observed("init")
  /\ UNCHANGED << isMobile, isMobileVR, localStorageCache, finishedScopes, userinput,
                  mediaCounter, returnedFinish, ticks, calls >>

NextLoaded == SystemInit \/ Tick \/ MarkTipFinished \/ HandleTipClose \/ ResetTips

SpecLoaded == InitLoaded /\ [][NextLoaded]_vars

(***************************************************************************)
(* The validators on their own: each entry of VALIDATORS is called with    *)
(* every combination of the signals it reads and every count.              *)
(***************************************************************************)
ValidatorNames == UNION {AllTips(p) : p \in DOMAIN TIPS}

\* the activity flag of a button tip
ActivityFlag(tip) ==
  CASE tip = "object_rotate_button" -> "hasRotated"
    [] tip = "object_scale_button" -> "hasScaled"
    [] tip = "object_recenter_button" -> "hasRecentered"
    [] tip = "object_pin" -> "hasPinned"

\* the signals a validator reads, besides mediaCounter.count()
Reads(tip) ==
  CASE tip = "look" -> {"cursorHoldingPen", "touchCameraDelta", "cameraDelta"}
    [] tip = "locomotion" ->
         {"cursorHoldingPen", "characterAcceleration", "accel0", "accel1"}
    [] tip = "turning" -> {"cursorHoldingPen", "snapRotateLeft", "snapRotateRight"}
    [] tip = "spawn_menu" -> {"cursorHoldingPen"}
    [] tip = "freeze_gesture" ->
         {"cursorHoldingInteractable", "cursorHoldingPen", "frozen",
          "cursorHoveringOnInteractable"}
    [] tip = "menu_hover" -> {"frozen", "cursorHoldingPen", "cursorHoveringOnInteractable"}
    [] tip = "invite" ->
         {"cursorHoldingPen", "cursorHoldingCamera", "cursorHoldingInteractable",
          "copresent"}
    [] tip = "object_grab" ->
         {"frozen", "cursorHoldingPen", "cursorHoldingCamera",
          "cursorHoldingInteractable"}
    [] tip \in {"object_rotate_button", "object_scale_button",
                "object_recenter_button", "object_pin"} ->
         {"frozen", "store", ActivityFlag(tip)}
    [] tip = "object_zoom" ->
         {"frozen", "cursorHoldingPen", "cursorHoldingCamera",
          "cursorHoldingInteractable", "modDelta"}
    [] tip = "object_scale" ->
         {"frozen", "cursorHoldingPen", "cursorHoldingCamera",
          "cursorHoldingInteractable", "scaleGrabbedGrabbable"}
    [] tip = "pen_color" -> {"cursorHoldingPen", "penNextColor", "penPrevColor"}
    [] tip = "pen_size" -> {"cursorHoldingPen", "scalePenTip"}
    [] tip = "pen_mode" -> {"cursorHoldingPen"}
    [] tip = "freeze_mode" -> {"frozen"}
    [] tip = "video_share_mode" -> {"sharing_video"}
    [] tip = "mirror_mode" -> {"mirroring"}
    [] tip = "mute_mode" -> {"muted"}

\* one call VALIDATORS[tip](userinput, scene, mediaCounter, store)
ValidatorCall(tip, c) ==
  /\ last' = [Observed("validator") EXCEPT
                !.returned = {<< tip, VALIDATORS(tip, c, isMobile) >>},
                !.frame = c]
  /\ UNCHANGED << isMobile, isMobileVR, localStorage, localStorageCache,
                  finishedScopes, activeTips, userinput, mediaCounter, phase,
                  returnedFinish, ticks, calls >>

Validator ==
  \E tip \in ValidatorNames : \E on \in SUBSET Reads(tip) : \E n \in Counts :
    ValidatorCall(tip, [on |-> on, count |-> n])

\* the device after init() on a first visit; the validators read nothing of the record
InitValidators == Init /\ Finished = {}

SpecValidators == InitValidators /\ [][Validator]_vars

(***************************************************************************)
(* Helpers of the properties.                                              *)
(***************************************************************************)
ScopeTips(s) == Range(platformTips[s])
\* the tips whose validator a call invoked, and what a validator returned
Invoked(o) == {p[1] : p \in o.returned}
Returned(o, t) == {p[2] : p \in {q \in o.returned : q[1] = t}}
\* position of a tip in the list of its scope
PositionIn(tips, t) == CHOOSE i \in 1..Len(tips) : tips[i] = t
\* the tips finished when the last call started
FinishedBefore == Finished \ last.finish
CompleteTick == last.op = "tick" /\ last.complete
\* the engine state a tick leaves, as the start of the next tick
Again(e) == [e EXCEPT !.returned = {}, !.finish = {}]

(***************************************************************************)
(* C1.  A tip whose validator has returned FINISH since the last resetTips *)
(* is the active tip of no scope, in every later state.                    *)
(***************************************************************************)
C1_FinishedNeverSelected ==
  \A s \in Scopes : \A t \in returnedFinish : activeTips[s] # Qualify(tipPlatform, t)

\* a tick after the one in which t returned FINISH selected a tip that comes
\* after t in the list of the scope
C1_Witness ==
  /\ CompleteTick
  /\ \E s \in Scopes : \E t \in (returnedFinish \ last.finish) \cap ScopeTips(s) :
       /\ activeTips[s] \notin {JSNull, JSUndefined}
       /\ PositionIn(platformTips[s], t) < PositionIn(platformTips[s], activeTips[s][2])

(***************************************************************************)
(* C2.  From every reachable state and in every context, a complete tick   *)
(* selects in each scope the first tip of the scope's list that is not     *)
(* finished and whose validator returns VALID in the context, and none     *)
(* (null) when there is no such tip.                                       *)
(***************************************************************************)
C2_FirstValidSelected ==
  \A c \in Contexts : \A s \in Scopes :
    LET tips == platformTips[s]
        valid == {i \in 1..Len(tips) :
                    tips[i] \notin Finished /\ VALIDATORS(tips[i], c, isMobile) = VALID}
        first == CHOOSE i \in valid : \A j \in valid : i <= j
    IN TickFrom(Engine, c).activeTips[s] =
         IF valid = {} THEN JSNull ELSE Qualify(tipPlatform, tips[first])

(***************************************************************************)
(* C3.  A tick emits tips_changed once when the top or bottom selection it *)
(* leaves differs from the one it found, and not at all when both are the  *)
(* same.                                                                   *)
(***************************************************************************)
C3_EmitsOncePerChange ==
  [][last'.op = "tick" =>
       last'.emitted = (IF activeTips' # activeTips THEN 1 ELSE 0)]_vars

\* a second evaluation kept a selected tip and emitted nothing
C3_Witness ==
  /\ CompleteTick
  /\ ticks = 2
  /\ last.emitted = 0
  /\ activeTips.top # JSNull

(***************************************************************************)
(* C4.  A complete tick that starts with every tip of a scope finished     *)
(* invokes no validator of the scope and leaves the scope without          *)
(* selection.                                                              *)
(***************************************************************************)
C4_ExhaustedScopeIdle ==
  CompleteTick =>
    \A s \in Scopes :
      ScopeTips(s) \subseteq FinishedBefore =>
        /\ Invoked(last) \cap ScopeTips(s) = {}
        /\ activeTips[s] = JSNull

\* the second tick on a scope with tips, all finished: the scope is flagged and
\* the other scope had validators invoked
C4_Witness ==
  /\ CompleteTick
  /\ ticks = 2
  /\ ScopeTips("bottom") # {}
  /\ ScopeTips("bottom") \subseteq FinishedBefore
  /\ "bottom" \in finishedScopes
  /\ Invoked(last) # {}

\* the engine right after init() on a device without a stored record
FreshEngine ==
  [m |-> [item |-> InitItem(JSNull), cache |-> JSNull],
   finishedScopes |-> {}, activeTips |-> [s \in Scopes |-> JSUndefined],
   returned |-> {}, finish |-> {}, threw |-> FALSE]

(***************************************************************************)
(* C5.  In the state a call of resetTips leaves, no tip is finished and no  *)
(* scope is flagged, and a tick selects, for every context, what it        *)
(* selects on a freshly initialised engine (empty record, empty cache, no  *)
(* flag).                                                                  *)
(***************************************************************************)
C5_ResetIsFresh ==
  last.op = "resetTips" =>
    /\ finishedScopes = {}
    /\ \A t \in AllTips(tipPlatform) : ~isTipFinished(Engine.m, t).value
    /\ \A c \in Contexts :
         TickFrom(Engine, c).activeTips = TickFrom(FreshEngine, c).activeTips

(***************************************************************************)
(* C6.  handleTipClose of a tip of LOCAL_CLOSE_TIPS (invite, object_pin)   *)
(* marks that tip finished and leaves every other tip, of either scope, as *)
(* it was; the flags of the scopes are unchanged.                          *)
(***************************************************************************)
C6_LocalCloseOnlyItself ==
  [][\A t \in LOCAL_CLOSE_TIPS, s \in Scopes :
       HandleTipCloseCall(Qualify(tipPlatform, t), s) =>
         /\ Finished' = Finished \cup {t}
         /\ finishedScopes' = finishedScopes]_vars

\* invite was closed and is the only finished tip
C6_Witness ==
  /\ last.op = "handleTipClose"
  /\ Finished = {"invite"}

\* after a handleTipClose, a scope whose tips are all finished gets no selection
\* and no validator call from a tick, in every context
ClosedScopeStaysEmpty ==
  last.op = "handleTipClose" =>
    \A s \in Scopes :
      ScopeTips(s) \subseteq Finished =>
        \A c \in Contexts :
          LET e == TickFrom(Engine, c)
          IN e.activeTips[s] = JSNull /\ Invoked(e) \cap ScopeTips(s) = {}

(***************************************************************************)
(* C7.  handleTipClose of a tip that is not in LOCAL_CLOSE_TIPS marks      *)
(* every tip of the given scope finished and no tip of the other scope;    *)
(* a tick after it leaves the scope without selection in every context.    *)
(***************************************************************************)
C7_OtherCloseClearsScope ==
  /\ [][\A t \in AllTips(tipPlatform) \ LOCAL_CLOSE_TIPS, s \in Scopes :
          HandleTipCloseCall(Qualify(tipPlatform, t), s) =>
            Finished' = Finished \cup ScopeTips(s)]_vars
  /\ []ClosedScopeStaysEmpty

\* a close has finished exactly the tips of the bottom scope
C7_Witness ==
  /\ last.op = "handleTipClose"
  /\ ScopeTips("bottom") # {}
  /\ Finished = ScopeTips("bottom")

\* the last call was a tick in which the only unfinished tip of s returned FINISH
LastTipFinishedNow(s) ==
  /\ CompleteTick
  /\ \E t \in last.finish \cap ScopeTips(s) : ScopeTips(s) \ {t} \subseteq FinishedBefore

(***************************************************************************)
(* C8, as claimed.  At the end of the tick in which the only unfinished    *)
(* tip of a scope returns FINISH, all tips of the scope are finished, the  *)
(* scope has no selection and the flag of the scope is set.                *)
(***************************************************************************)
C8_AsClaimed ==
  \A s \in Scopes :
    LastTipFinishedNow(s) =>
      /\ ScopeTips(s) \subseteq Finished
      /\ activeTips[s] = JSNull
      /\ s \in finishedScopes

(***************************************************************************)
(* C8, amended.  At the end of that tick all tips of the scope are         *)
(* finished and the scope has no selection; the flag of the scope is not   *)
(* set by that tick, it is set by the next complete tick, which invokes no *)
(* validator of the scope.                                                 *)
(***************************************************************************)
C8_FlagOneTickLater ==
  \A s \in Scopes :
    LastTipFinishedNow(s) =>
      /\ ScopeTips(s) \subseteq Finished
      /\ activeTips[s] = JSNull
      /\ s \notin finishedScopes
      /\ \A c \in Contexts :
           LET e == TickFrom(Engine, c)
           IN /\ s \in e.finishedScopes
              /\ e.activeTips[s] = JSNull
              /\ Invoked(e) \cap ScopeTips(s) = {}

\* the only unfinished tip of the bottom scope has just returned FINISH
C8_Witness ==
  /\ LastTipFinishedNow("bottom")
  /\ activeTips.bottom = JSNull
  /\ "bottom" \notin finishedScopes

\* for every context, a second and a third tick leave the selection of the first
SameAfterRepeats ==
  \A c \in Contexts :
    LET e1 == TickFrom(Engine, c)
        e2 == TickFrom(Again(e1), c)
        e3 == TickFrom(Again(e2), c)
    IN /\ e2.activeTips = e1.activeTips
       /\ e3.activeTips = e1.activeTips

(***************************************************************************)
(* C9.  Repeating the tick in an unchanged context gives the same          *)
(* selection: from every reachable state and for every context, the second *)
(* and the third tick leave the top and bottom selection of the first.     *)
(***************************************************************************)
C9_TickIdempotent == []SameAfterRepeats

\* a second tick found a tip finished by the first and kept the selection
C9_Witness ==
  /\ CompleteTick
  /\ ticks = 2
  /\ last.emitted = 0
  /\ last.finish = {}
  /\ returnedFinish # {}
  /\ activeTips.bottom \notin {JSNull, JSUndefined}

(***************************************************************************)
(* C10.  No call of markTipFinished, handleTipClose or tick (which calls    *)
(* isTipFinished) ends with an exception, whether or not a record is       *)
(* stored under the key: a missing record is treated as the empty one.     *)
(***************************************************************************)
C10_NeverThrows ==
  last.op \in {"markTipFinished", "handleTipClose", "tick"} => ~last.threw

(***************************************************************************)
(* C11.  A tick evaluates the scopes exactly when the input provider and   *)
(* the media counter are both resolved by then; a tick that does not is a  *)
(* no-op: it calls no validator, emits nothing and leaves activeTips, the  *)
(* stored record, the cache and the flags of the scopes as they were.      *)
(***************************************************************************)
C11_NotReadyIsNoOp ==
  [][last'.op = "tick" =>
       /\ last'.complete <=> (userinput' /\ mediaCounter')
       /\ ~last'.complete =>
            /\ last'.returned = {}
            /\ last'.finish = {}
            /\ last'.emitted = 0
            /\ ~last'.threw
            /\ UNCHANGED << activeTips, localStorage, localStorageCache,
                            finishedScopes >>]_vars

\* a tick after a dismissal found the input provider but no media counter
C11_Witness ==
  /\ last.op = "tick"
  /\ ~last.complete
  /\ userinput /\ ~mediaCounter
  /\ calls = 1
  /\ Finished # {}
  /\ activeTips.top = JSUndefined

\* the engine with the test of line 280 removed: a step sets a flag only at its
\* end and every scope is stepped once per tick, so this is the tick that sees no flag
Unflagged(e) == [e EXCEPT !.finishedScopes = {}]

(***************************************************************************)
(* C12.  The exhaustion flag is a pure optimization: from every reachable  *)
(* state and in every context, the tick selects in both scopes what the    *)
(* tick without the shortcut (always walking the lists) selects.           *)
(***************************************************************************)
C12_ShortcutChangesNothing ==
  \A c \in Contexts :
    TickFrom(Engine, c).activeTips = TickFrom(Unflagged(Engine), c).activeTips

(***************************************************************************)
(* C13.  The finished set is monotonic: every step of tick,                *)
(* markTipFinished or handleTipClose keeps finished every tip that the     *)
(* stored record marked finished before the step.                          *)
(***************************************************************************)
C13_FinishedMonotonic ==
  [][last'.op \in {"tick", "markTipFinished", "handleTipClose"} =>
       Finished \subseteq Finished']_vars

\* a tick has added a tip to a record that already held one
C13_Witness ==
  /\ CompleteTick
  /\ last.finish # {}
  /\ FinishedBefore # {}
  /\ FinishedBefore \subseteq Finished

(***************************************************************************)
(* C14.  The cache is either absent (null) or equal to the stored record;  *)
(* after markTipFinished, handleTipClose and resetTips it is absent, so    *)
(* the next isTipFinished reloads it.                                      *)
(***************************************************************************)
C14_CacheNullOrCurrent ==
  /\ localStorageCache = JSNull \/ localStorageCache = JSONparse(localStorage)
  /\ last.op \in {"markTipFinished", "handleTipClose", "resetTips"} =>
       localStorageCache = JSNull

\* a tick has marked a tip finished and loaded the record again for a later tip
C14_Witness ==
  /\ CompleteTick
  /\ last.finish # {}
  /\ localStorageCache # JSNull
  /\ last.finish \subseteq localStorageCache[2]

CalledTip == (CHOOSE p \in last.returned : TRUE)[1]
Result == (CHOOSE p \in last.returned : TRUE)[2]
CountGated == {"spawn_menu", "freeze_gesture", "object_grab"}
ActivityGated ==
  {"object_rotate_button", "object_scale_button", "object_recenter_button", "object_pin"}

(***************************************************************************)
(* C16, as claimed.  spawn_menu, freeze_gesture and object_grab return     *)
(* INVALID whenever the count of the media counter is zero.                *)
(***************************************************************************)
C16_AsClaimed ==
  last.op = "validator" /\ last.frame.count = 0 /\ CalledTip \in CountGated =>
    Result = INVALID

(***************************************************************************)
(* C16, amended.  With a count of zero, freeze_gesture and object_grab     *)
(* return INVALID for every combination of the signals they read;          *)
(* spawn_menu returns VALID, and INVALID only while the pen is held.  With *)
(* a count that is not zero spawn_menu returns FINISH unless the pen is    *)
(* held.                                                                   *)
(***************************************************************************)
C16_CountGates ==
  last.op = "validator" =>
    /\ last.frame.count = 0 /\ CalledTip \in {"freeze_gesture", "object_grab"} =>
         Result = INVALID
    /\ CalledTip = "spawn_menu" =>
         Result = IF "cursorHoldingPen" \in last.frame.on THEN INVALID
                  ELSE IF last.frame.count = 0 THEN VALID
                  ELSE FINISH

\* freeze_gesture was called with no object, frozen and hovering an object, which
\* returns FINISH as soon as an object exists
C16_Witness ==
  /\ last.op = "validator"
  /\ CalledTip = "freeze_gesture"
  /\ last.frame = [on |-> {"frozen", "cursorHoveringOnInteractable"}, count |-> 0]
  /\ Result = INVALID

(***************************************************************************)
(* C17, as claimed.  object_rotate_button, object_scale_button,            *)
(* object_recenter_button and object_pin return FINISH whenever their      *)
(* activity flag is set, frozen or not and whatever the count.             *)
(***************************************************************************)
C17_AsClaimed ==
  /\ last.op = "validator"
  /\ CalledTip \in ActivityGated
  /\ {"store", ActivityFlag(CalledTip)} \subseteq last.frame.on
  => Result = FINISH

(***************************************************************************)
(* C17, amended.  With its activity flag set, each of the four validators  *)
(* returns FINISH when the scene is frozen and the count is not zero, and  *)
(* INVALID when the scene is not frozen or the count is zero.              *)
(***************************************************************************)
C17_FinishOnlyWhenShowable ==
  /\ last.op = "validator"
  /\ CalledTip \in ActivityGated
  /\ {"store", ActivityFlag(CalledTip)} \subseteq last.frame.on
  => Result = IF "frozen" \in last.frame.on /\ last.frame.count # 0
              THEN FINISH ELSE INVALID

\* object_pin was called with hasPinned set, an object present and the scene not frozen
C17_Witness ==
  /\ last.op = "validator"
  /\ CalledTip = "object_pin"
  /\ last.frame = [on |-> {"store", "hasPinned"}, count |-> 1]
  /\ Result = INVALID

(***************************************************************************)
(* C18.  In every state between two calls, a scope whose flag is set has   *)
(* every tip of its list finished in the stored record and null as its     *)
(* entry of activeTips.                                                    *)
(***************************************************************************)
C18_FlagMeansExhausted ==
  \A s \in finishedScopes :
    /\ ScopeTips(s) \subseteq Finished
    /\ activeTips[s] = JSNull

\* after a dismissal, a selected tip that is finished is replaced by the tick, in
\* every context, and the tick emits tips_changed
DismissedTipReplacedByTick ==
  last.op \in {"handleTipClose", "markTipFinished"} =>
    \A s \in Scopes :
      activeTips[s] \notin {JSNull, JSUndefined} /\ activeTips[s][2] \in Finished =>
        \A c \in Contexts :
          LET e == TickFrom(Engine, c)
          IN /\ e.activeTips[s] # activeTips[s]
             /\ TipsChanged(activeTips, e.activeTips)

(***************************************************************************)
(* C19.  handleTipClose, markTipFinished and resetTips leave activeTips    *)
(* unchanged and emit no tips_changed; a dismissed tip stays the active    *)
(* tip of its scope until the next complete tick, which replaces it and    *)
(* emits the notification.                                                 *)
(***************************************************************************)
C19_OnlyTickChangesSelection ==
  /\ [][last'.op \in {"handleTipClose", "markTipFinished", "resetTips"} =>
          activeTips' = activeTips /\ last'.emitted = 0]_vars
  /\ []DismissedTipReplacedByTick

\* the tip shown at the bottom was closed and is still the active tip
C19_Witness ==
  /\ last.op = "handleTipClose"
  /\ activeTips.bottom \notin {JSNull, JSUndefined}
  /\ activeTips.bottom[2] \in Finished

(***************************************************************************)
(* C20.  The first complete tick emits tips_changed exactly once, also     *)
(* when neither scope selects a tip (the entries go from undefined to      *)
(* null).  On the standalone platform, whose lists are empty, every        *)
(* complete tick leaves both scopes flagged and without selection, and no  *)
(* tick after the first emits tips_changed.                                *)
(***************************************************************************)
C20_FirstTickEmits ==
  /\ CompleteTick /\ ticks = 1 => last.emitted = 1
  /\ CompleteTick /\ tipPlatform = "standalone" =>
       /\ finishedScopes = Scopes
       /\ activeTips = [s \in Scopes |-> JSNull]
       /\ ticks > 1 => last.emitted = 0

\* the first complete tick on the standalone platform
C20_Witness ==
  /\ CompleteTick
  /\ ticks = 1
  /\ tipPlatform = "standalone"
  /\ last.emitted = 1
  /\ activeTips = [s \in Scopes |-> JSNull]
  /\ finishedScopes = Scopes

====
